---- MODULE Spec2Model ----
(***************************************************************************)
(* The conditional branching engine of the form builder                    *)
(* (src/lib/branching.ts): the condition evaluator, the next-question      *)
(* resolver and the path projector, as pure operators over JavaScript      *)
(* values, and the state machines that apply them to bounded inputs.       *)
(*                                                                         *)
(* JavaScript values (the Json type) are tagged records:                   *)
(*   [k |-> "string",  s |-> <<chars>>]    a string, as its characters     *)
(*   [k |-> "number",  n |-> Nat]          a (non-negative integer) number *)
(*   [k |-> "boolean", b |-> BOOLEAN]                                      *)
(*   [k |-> "null"], [k |-> "undefined"], [k |-> "object"]                 *)
(*   [k |-> "array",   items |-> <<values>>]                               *)
(* Question ids are TLA+ strings; "" is the empty (falsy) id, and the two  *)
(* names NULL and UNDEFINED stand for the null and the absent id.          *)
(***************************************************************************)
EXTENDS Integers, Sequences, FiniteSets, TLC

VARIABLES
    questions,        \* allQuestions / questions: the ordered question list
    answers,          \* the answer map: a function from answered ids to values
    condition,        \* evaluateCondition's condition argument
    currentQuestion,  \* getNextQuestionId's currentQuestion argument
    startFromId,      \* getQuestionPath's optional startFromId argument
    pc,               \* position of the call in progress
    path,             \* getQuestionPath: path
    visited,          \* getQuestionPath: visited
    currentId,        \* getQuestionPath: currentId
    iterations,       \* getQuestionPath: iterations
    result            \* the value the last completed call returned

vars == <<questions, answers, condition, currentQuestion, startFromId,
          pc, path, visited, currentId, iterations, result>>

-----------------------------------------------------------------------------
(* Bounds of the model. *)

MaxStrLen == 2       \* scalar strings have at most this many characters
MaxListLen == 2      \* list answers and list condition values: at most this long
MaxNum == 1          \* number answers range over 0..MaxNum
MaxQuestions == 2    \* the question list has at most this many questions
MaxBranches == 2     \* getNextQuestionId: currentQuestion has at most this many rules
MaxScale == 11       \* configured minValue and maxValue are at most this
MaxBelowZero == 1    \* configured minValue and maxValue are at least -MaxBelowZero

-----------------------------------------------------------------------------
(* JavaScript values. *)

NULL == "<null>"
UNDEFINED == "<undefined>"

JsNull == [k |-> "null"]
JsUndefined == [k |-> "undefined"]
JsObject == [k |-> "object"]
Str(s) == [k |-> "string", s |-> s]
Num(n) == [k |-> "number", n |-> n]
Bool(b) == [k |-> "boolean", b |-> b]
Arr(items) == [k |-> "array", items |-> items]

isArray(v) == v.k = "array"

SeqsUpTo(S, n) == UNION {[1..m -> S] : m \in 0..n}

Chars == {"a", "A", "1"}
ExampleStrings == {<<"a", "b">>, <<"X", "A", "B">>, <<"x">>}
\* Scalar strings, and the (shorter) strings that occur as list elements.
Strings == SeqsUpTo(Chars, MaxStrLen) \cup ExampleStrings
ElementStrings == {<<>>} \cup {<<c>> : c \in Chars} \cup ExampleStrings

DigitChar == <<"0", "1", "2", "3", "4", "5", "6", "7", "8", "9">>

RECURSIVE NumberToString(_)
NumberToString(n) ==
    IF n < 0 THEN <<"-">> \o NumberToString(0 - n)
    ELSE IF n < 10 THEN <<DigitChar[n + 1]>>
    ELSE NumberToString(n \div 10) \o <<DigitChar[(n % 10) + 1]>>

RECURSIVE Join(_)
RECURSIVE String(_)
\* Array.prototype.join(","): null and undefined elements give "".
Join(items) ==
    IF Len(items) = 0 THEN <<>>
    ELSE LET h == IF Head(items).k \in {"null", "undefined"} THEN <<>>
                  ELSE String(Head(items))
         IN IF Len(items) = 1 THEN h
            ELSE h \o <<",">> \o Join(Tail(items))

\* String(v), as a sequence of characters.
String(v) ==
    CASE v.k = "string" -> v.s
      [] v.k = "number" -> NumberToString(v.n)
      [] v.k = "boolean" -> IF v.b THEN <<"t", "r", "u", "e">>
                            ELSE <<"f", "a", "l", "s", "e">>
      [] v.k = "null" -> <<"n", "u", "l", "l">>
      [] v.k = "undefined" -> <<"u", "n", "d", "e", "f", "i", "n", "e", "d">>
      [] v.k = "object" -> <<"[", "o", "b", "j", "e", "c", "t", " ",
                             "O", "b", "j", "e", "c", "t", "]">>
      [] v.k = "array" -> Join(v.items)

LowerOf == ("A" :> "a") @@ ("B" :> "b") @@ ("X" :> "x") @@ ("O" :> "o")

\* Mutant of toLowerCase: the case is kept.
toLowerCase_keepsCase(s) == s

toLowerCase(s) ==
    [i \in 1..Len(s) |-> IF s[i] \in DOMAIN LowerOf THEN LowerOf[s[i]] ELSE s[i]]

\* String.prototype.includes: needle occurs as a substring of hay.
stringIncludes(hay, needle) ==
    \E i \in 0..(Len(hay) - Len(needle)) :
        SubSeq(hay, i + 1, i + Len(needle)) = needle

\* Array.prototype.includes: some element is the same value (no coercion).
\* An array-valued search element is a distinct object and is never found.
arrayIncludes(items, v) ==
    /\ ~isArray(v)
    /\ \E i \in 1..Len(items) : items[i] = v

\* answers[id]
Lookup(map, id) == IF id \in DOMAIN map THEN map[id] ELSE JsUndefined

-----------------------------------------------------------------------------
(* evaluateCondition *)

\* Mutant of isNoAnswer: only null counts as no answer.
isNoAnswer_nullOnly(answer) == answer = JsNull

\* answer === null || answer === undefined
isNoAnswer(answer) == answer = JsNull \/ answer = JsUndefined

\* case 'equals'
opEquals(answer, conditionValue) ==
    IF isArray(answer) THEN arrayIncludes(answer.items, conditionValue)
    ELSE String(answer) = String(conditionValue)

\* Mutant of opNotEquals: no list case, the string forms are compared.
opNotEquals_noListCase(answer, conditionValue) ==
    String(answer) # String(conditionValue)

\* case 'not_equals'
opNotEquals(answer, conditionValue) ==
    IF isArray(answer) THEN ~arrayIncludes(answer.items, conditionValue)
    ELSE String(answer) # String(conditionValue)

\* case 'contains' (answer.some over a list answer)
opContains(answer, conditionValue) ==
    IF isArray(answer)
    THEN \E i \in 1..Len(answer.items) :
            stringIncludes(toLowerCase(String(answer.items[i])),
                           toLowerCase(String(conditionValue)))
    ELSE stringIncludes(toLowerCase(String(answer)),
                        toLowerCase(String(conditionValue)))

\* Mutant of opIn: no Array.isArray guard, a string value is searched as a string.
opIn_noArrayGuard(answer, conditionValue) ==
    IF ~isArray(conditionValue)
    THEN IF isArray(answer)
         THEN \E i \in 1..Len(answer.items) :
                 stringIncludes(String(conditionValue), String(answer.items[i]))
         ELSE stringIncludes(String(conditionValue), String(answer))
    ELSE IF isArray(answer)
    THEN \E i \in 1..Len(answer.items) :
            arrayIncludes(conditionValue.items, Str(String(answer.items[i])))
    ELSE arrayIncludes(conditionValue.items, Str(String(answer)))

\* case 'in' (answer.some over a list answer)
opIn(answer, conditionValue) ==
    IF ~isArray(conditionValue) THEN FALSE
    ELSE IF isArray(answer)
    THEN \E i \in 1..Len(answer.items) :
            arrayIncludes(conditionValue.items, Str(String(answer.items[i])))
    ELSE arrayIncludes(conditionValue.items, Str(String(answer)))

evaluateCondition(cond, ans) ==
    LET answer == Lookup(ans, cond.questionId)
        conditionValue == cond.value
    IN  IF isNoAnswer(answer) THEN FALSE
        ELSE CASE cond.operator = "equals" -> opEquals(answer, conditionValue)
               [] cond.operator = "not_equals" -> opNotEquals(answer, conditionValue)
               [] cond.operator = "contains" -> opContains(answer, conditionValue)
               [] cond.operator = "in" -> opIn(answer, conditionValue)
               [] OTHER -> FALSE

-----------------------------------------------------------------------------
(* getNextQuestionId *)

\* Mutant of firstMatchingBranch: the last matching rule wins.
RECURSIVE firstMatchingBranch_lastWins(_, _, _)
firstMatchingBranch_lastWins(branches, ans, i) ==
    IF i > Len(branches) THEN 0
    ELSE LET later == firstMatchingBranch_lastWins(branches, ans, i + 1)
         IN  IF later > 0 THEN later
             ELSE IF evaluateCondition(branches[i].condition, ans) THEN i
             ELSE 0

\* for (const branch of branches) if (evaluateCondition(...)) return branch:
\* the index of the first rule at or after i whose condition holds, 0 if none.
RECURSIVE firstMatchingBranch(_, _, _)
firstMatchingBranch(branches, ans, i) ==
    IF i > Len(branches) THEN 0
    ELSE IF evaluateCondition(branches[i].condition, ans) THEN i
    ELSE firstMatchingBranch(branches, ans, i + 1)

\* allQuestions.findIndex(q => q.id === id): 0-based, -1 when there is none.
RECURSIVE findIndexFrom(_, _, _)
findIndexFrom(allQuestions, id, i) ==
    IF i > Len(allQuestions) THEN -1
    ELSE IF allQuestions[i].id = id THEN i - 1
    ELSE findIndexFrom(allQuestions, id, i + 1)

findIndex(allQuestions, id) == findIndexFrom(allQuestions, id, 1)

\* Mutant of linearFallback: the successor is read at the current index.
linearFallback_sameIndex(question, allQuestions) ==
    LET currentIndex == findIndex(allQuestions, question.id)
    IN  IF currentIndex >= 0 /\ currentIndex < Len(allQuestions) - 1
        THEN allQuestions[currentIndex + 1].id
        ELSE NULL

\* Mutant of linearFallback: the first question has no successor (index > 0).
linearFallback_skipsFirst(question, allQuestions) ==
    LET currentIndex == findIndex(allQuestions, question.id)
    IN  IF currentIndex > 0 /\ currentIndex < Len(allQuestions) - 1
        THEN allQuestions[(currentIndex + 1) + 1].id
        ELSE NULL

\* Linear fallback: go to next question in array, else end of form.
linearFallback(question, allQuestions) ==
    LET currentIndex == findIndex(allQuestions, question.id)
    IN  IF currentIndex >= 0 /\ currentIndex < Len(allQuestions) - 1
        THEN allQuestions[(currentIndex + 1) + 1].id
        ELSE NULL

\* Mutant of hasDefaultNext: a truthiness test, so explicit end is not configured.
hasDefaultNext_truthy(question) == question.defaultNextId \notin {UNDEFINED, NULL, ""}

\* currentQuestion.defaultNextId !== undefined
hasDefaultNext(question) == question.defaultNextId # UNDEFINED

getNextQuestionId(question, allQuestions, ans) ==
    LET m == firstMatchingBranch(question.branches, ans, 1)
    IN  IF m > 0 THEN question.branches[m].nextQuestionId
        ELSE IF hasDefaultNext(question) THEN question.defaultNextId
        ELSE linearFallback(question, allQuestions)

-----------------------------------------------------------------------------
(* Inputs. *)

Operators == {"equals", "not_equals", "contains", "in", "matches"}

Primitives == {Str(s) : s \in Strings} \cup {Num(n) : n \in 0..MaxNum}
                \cup {Bool(b) : b \in BOOLEAN}
ElementValues == {Str(s) : s \in ElementStrings} \cup {Num(n) : n \in 0..MaxNum}
                   \cup {Bool(b) : b \in BOOLEAN}
Lists == {Arr(items) : items \in SeqsUpTo(ElementValues, MaxListLen)}
AnswerValues == Primitives \cup Lists \cup {JsObject, JsNull}

StringLists ==
    {Arr(items) : items \in SeqsUpTo({Str(s) : s \in ElementStrings}, MaxListLen)}
ConditionValues == {Str(s) : s \in Strings} \cup StringLists

EmptyMap == [id \in {} |-> JsNull]
NoCall == [k |-> "none"]

\* Question ids, in list order; the list holds the first n of them.
QuestionIds == <<"q1", "q2", "q3", "q4", "q5">>
ListIds(n) == {QuestionIds[i] : i \in 1..n}
\* Targets of rules and of default-next: END, the empty id, an id of no
\* question, and the ids that questions of a full-length list have.
Targets == {NULL, "", "zz"} \cup ListIds(MaxQuestions)

Question(id, branches, defaultNextId) ==
    [id |-> id, branches |-> branches, defaultNextId |-> defaultNextId]
Rule(cond, nextQuestionId) == [condition |-> cond, nextQuestionId |-> nextQuestionId]

\* A question with no rules and no default-next.
PlainQuestion(i) == Question(QuestionIds[i], <<>>, UNDEFINED)

\* Conditions on the answer to q1, and answer maps that decide them:
\* no answer (neither holds), "a" (equals holds), "A" (not_equals holds).
FlowConditions ==
    {[questionId |-> "q1", operator |-> o, value |-> Str(<<"a">>)] :
        o \in {"equals", "not_equals"}}
FlowAnswers == {EmptyMap} \cup {[id \in {"q1"} |-> Str(s)] : s \in {<<"a">>, <<"A">>}}
FlowRules == {Rule(c, t) : c \in FlowConditions, t \in Targets}

Idle ==
    /\ pc = "ready"
    /\ path = <<>>
    /\ visited = {}
    /\ currentId = NULL
    /\ iterations = 0
    /\ result = NoCall

-----------------------------------------------------------------------------
(* evaluateCondition applied to every bounded condition and answer. *)

InitEval ==
    /\ questions = <<>>
    /\ \E v \in AnswerValues \cup {JsUndefined} :
          answers = IF v = JsUndefined THEN EmptyMap ELSE [id \in {"q1"} |-> v]
    /\ \E v \in ConditionValues, o \in Operators :
          condition = [questionId |-> "q1", operator |-> o, value |-> v]
    /\ currentQuestion = NoCall
    /\ startFromId = UNDEFINED
    /\ Idle

EvaluateCondition ==
    /\ pc = "ready"
    /\ result' = Bool(evaluateCondition(condition, answers))
    /\ pc' = "returned"
    /\ UNCHANGED <<questions, answers, condition, currentQuestion, startFromId,
                   path, visited, currentId, iterations>>

NextEval == EvaluateCondition

SpecEval == InitEval /\ [][NextEval]_vars

-----------------------------------------------------------------------------
(* getNextQuestionId applied to a question with rules, inside or outside a *)
(* list of n questions.                                                    *)

InitResolve ==
    /\ \E n \in 0..MaxQuestions, idx \in 0..MaxQuestions,
          branches \in SeqsUpTo(FlowRules, MaxBranches),
          defaultNextId \in Targets \cup {UNDEFINED} :
          /\ idx <= n
          \* idx = 0: currentQuestion is no element of the list
          /\ currentQuestion = Question(IF idx = 0 THEN "zz" ELSE QuestionIds[idx],
                                        branches, defaultNextId)
          /\ questions = [i \in 1..n |-> IF i = idx THEN currentQuestion
                                         ELSE PlainQuestion(i)]
    /\ answers \in FlowAnswers
    /\ condition = NoCall
    /\ startFromId = UNDEFINED
    /\ Idle

GetNextQuestionId ==
    /\ pc = "ready"
    /\ result' = getNextQuestionId(currentQuestion, questions, answers)
    /\ pc' = "returned"
    /\ UNCHANGED <<questions, answers, condition, currentQuestion, startFromId,
                   path, visited, currentId, iterations>>

NextResolve == GetNextQuestionId

SpecResolve == InitResolve /\ [][NextResolve]_vars

-----------------------------------------------------------------------------
(* getQuestionPath, one loop iteration per step. *)

\* JavaScript truthiness of an optional id: undefined, null and "" are falsy.
truthy(id) == id \notin {UNDEFINED, NULL, ""}

\* Mutant of startCursor: the start id is ignored.
startCursor_firstQuestion(start, qs) == qs[1].id

\* Mutant of startCursor: only an absent start id gives the first question (??).
startCursor_nullish(start, qs) == IF start # UNDEFINED THEN start ELSE qs[1].id

\* startFromId || questions[0].id
startCursor(start, qs) == IF truthy(start) THEN start ELSE qs[1].id

\* Mutant of maxIterations: half the list length.
maxIterations_half(qs) == Len(qs) \div 2

\* questions.length * 2
maxIterations(qs) == Len(qs) * 2

\* questions.find(q => q.id === id), NoQuestion (undefined) when there is none.
NoQuestion == Question(UNDEFINED, <<>>, UNDEFINED)
find(qs, id) ==
    LET i == findIndex(qs, id) IN IF i < 0 THEN NoQuestion ELSE qs[i + 1]

\* Mutant of notFound: the missing question is not noticed.
notFound_never(question) == FALSE

\* !question
notFound(question) == question = NoQuestion

\* The loop of getQuestionPath run to its end from the given locals: the path
\* it leaves.
RECURSIVE walk(_, _, _, _, _, _)
walk(qs, ans, cursor, seen, count, sofar) ==
    IF truthy(cursor) /\ count < maxIterations(qs)
    THEN IF cursor \in seen THEN sofar
         ELSE LET question == find(qs, cursor)
              IN  IF notFound(question) THEN sofar
                  ELSE walk(qs, ans, getNextQuestionId(question, qs, ans),
                            seen \cup {cursor}, count + 1, Append(sofar, question))
    ELSE sofar

\* getQuestionPath as a function of its arguments.
getQuestionPath(qs, ans, start) ==
    IF Len(qs) = 0 THEN <<>>
    ELSE walk(qs, ans, startCursor(start, qs), {}, 0, <<>>)

\* while (currentId && iterations < maxIterations)
loopGuard == truthy(currentId) /\ iterations < maxIterations(questions)

\* if (questions.length === 0) return []; otherwise the locals are set up.
GetQuestionPathEnter ==
    /\ pc = "ready"
    /\ IF Len(questions) = 0
       THEN /\ result' = <<>>
            /\ pc' = "returned"
            /\ UNCHANGED <<path, visited, currentId, iterations>>
       ELSE /\ path' = <<>>
            /\ visited' = {}
            /\ currentId' = startCursor(startFromId, questions)
            /\ iterations' = 0
            /\ pc' = "loop"
            /\ UNCHANGED result
    /\ UNCHANGED <<questions, answers, condition, currentQuestion, startFromId>>

\* The loop condition is false: fall out of the loop.
LoopExit ==
    /\ pc = "loop"
    /\ ~loopGuard
    /\ pc' = "return"
    /\ UNCHANGED <<questions, answers, condition, currentQuestion, startFromId,
                   path, visited, currentId, iterations, result>>

\* if (visited.has(currentId)) break
LoopBreakVisited ==
    /\ pc = "loop"
    /\ loopGuard
    /\ currentId \in visited
    /\ iterations' = iterations + 1
    /\ pc' = "return"
    /\ UNCHANGED <<questions, answers, condition, currentQuestion, startFromId,
                   path, visited, currentId, result>>

\* if (!question) break
LoopBreakNotFound ==
    /\ pc = "loop"
    /\ loopGuard
    /\ currentId \notin visited
    /\ notFound(find(questions, currentId))
    /\ iterations' = iterations + 1
    /\ visited' = visited \cup {currentId}
    /\ pc' = "return"
    /\ UNCHANGED <<questions, answers, condition, currentQuestion, startFromId,
                   path, currentId, result>>

\* Mutant of LoopAdvance: visited.add(currentId) is left out.
LoopAdvance_forgetsVisited ==
    /\ pc = "loop"
    /\ loopGuard
    /\ currentId \notin visited
    /\ LET question == find(questions, currentId)
       IN  /\ ~notFound(question)
           /\ path' = Append(path, question)
           /\ currentId' = getNextQuestionId(question, questions, answers)
    /\ iterations' = iterations + 1
    /\ UNCHANGED <<questions, answers, condition, currentQuestion, startFromId,
                   pc, visited, result>>

\* path.push(question); currentId = getNextQuestionId(question, questions, answers)
LoopAdvance ==
    /\ pc = "loop"
    /\ loopGuard
    /\ currentId \notin visited
    /\ LET question == find(questions, currentId)
       IN  /\ ~notFound(question)
           /\ path' = Append(path, question)
           /\ currentId' = getNextQuestionId(question, questions, answers)
    /\ iterations' = iterations + 1
    /\ visited' = visited \cup {currentId}
    /\ UNCHANGED <<questions, answers, condition, currentQuestion, startFromId,
                   pc, result>>

\* return path
GetQuestionPathReturn ==
    /\ pc = "return"
    /\ result' = path
    /\ pc' = "returned"
    /\ UNCHANGED <<questions, answers, condition, currentQuestion, startFromId,
                   path, visited, currentId, iterations>>

\* Question lists of n questions q1..qn, each with no rule or one rule on the
\* answer to q1, and any default-next. A rule targets END or one of the ids
\* q1..qMaxQuestions (an id of no question when the list is shorter).
FlowBranches ==
    {<<>>} \cup {<<Rule([questionId |-> "q1", operator |-> "equals",
                        value |-> Str(<<"a">>)], t)>> :
                    t \in {NULL} \cup ListIds(MaxQuestions)}
FlowQuestions(i) ==
    {Question(QuestionIds[i], b, d) : b \in FlowBranches, d \in Targets \cup {UNDEFINED}}
QuestionLists ==
    UNION {{qs \in [1..n -> UNION {FlowQuestions(i) : i \in 1..n}] :
               \A i \in 1..n : qs[i].id = QuestionIds[i]} : n \in 0..MaxQuestions}
StartIds == {UNDEFINED, "", "zz"} \cup ListIds(MaxQuestions)

InitPath ==
    /\ questions \in QuestionLists
    /\ answers \in {EmptyMap, [id \in {"q1"} |-> Str(<<"a">>)]}
    /\ startFromId \in StartIds
    /\ condition = NoCall
    /\ currentQuestion = NoCall
    /\ Idle

NextPath ==
    \/ GetQuestionPathEnter
    \/ LoopExit
    \/ LoopBreakVisited
    \/ LoopBreakNotFound
    \/ LoopAdvance
    \/ GetQuestionPathReturn

SpecPath == InitPath /\ [][NextPath]_vars

-----------------------------------------------------------------------------
(* Properties of getNextQuestionId, checked under SpecResolve. *)

\* The rules of currentQuestion whose condition holds under the answers.
MatchingRules ==
    {i \in 1..Len(currentQuestion.branches) :
        evaluateCondition(currentQuestion.branches[i].condition, answers)}

\* The positions of the list that hold a question with currentQuestion's id.
PositionsOfCurrent ==
    {i \in 1..Len(questions) : questions[i].id = currentQuestion.id}

\* C1: when at least one rule of the question matches, getNextQuestionId
\* returns the target of the first matching rule in declared order, whatever
\* later rules match and whatever default-next is; a first matching target
\* of END gives END.
C1_FirstMatchingRuleWins ==
    (pc = "returned" /\ MatchingRules # {}) =>
        \E i \in MatchingRules :
            /\ \A j \in MatchingRules : i <= j
            /\ result = currentQuestion.branches[i].nextQuestionId

\* Two rules match, the first targets END, the second and default-next name
\* questions, a structural successor exists, and END was returned.
C1_Witness ==
    /\ pc = "returned"
    /\ MatchingRules = {1, 2}
    /\ currentQuestion.branches[1].nextQuestionId = NULL
    /\ currentQuestion.branches[2].nextQuestionId = "q2"
    /\ currentQuestion.defaultNextId = "q2"
    /\ currentQuestion.id = "q1"
    /\ Len(questions) = 2
    /\ result = NULL

\* C2: when no rule matches and default-next is configured, getNextQuestionId
\* returns exactly the configured default (END for explicit end, the id for
\* an explicit target, dangling or backward alike), never the structural
\* successor.
C2_ConfiguredDefaultWins ==
    (pc = "returned" /\ MatchingRules = {}
        /\ currentQuestion.defaultNextId # UNDEFINED) =>
        result = currentQuestion.defaultNextId

\* No rule matches, default-next is explicit end, the question has a
\* structural successor, and END was returned.
C2_Witness ==
    /\ pc = "returned"
    /\ Len(currentQuestion.branches) > 0
    /\ MatchingRules = {}
    /\ currentQuestion.defaultNextId = NULL
    /\ currentQuestion.id = "q1"
    /\ Len(questions) = 2
    /\ result = NULL

\* C3: when no rule matches and default-next is not configured,
\* getNextQuestionId returns the id of the question immediately after the
\* current one in the list, and END when the current question is last or is
\* not in the list, for every answer map.
C3_StructuralSuccessor ==
    (pc = "returned" /\ MatchingRules = {}
        /\ currentQuestion.defaultNextId = UNDEFINED) =>
        /\ \A i \in PositionsOfCurrent :
              result = IF i < Len(questions) THEN questions[i + 1].id ELSE NULL
        /\ PositionsOfCurrent = {} => result = NULL

\* The first of two questions, with a rule that does not match and no
\* default-next, resolved to the second question.
C3_Witness ==
    /\ pc = "returned"
    /\ Len(currentQuestion.branches) > 0
    /\ MatchingRules = {}
    /\ currentQuestion.defaultNextId = UNDEFINED
    /\ PositionsOfCurrent = {1}
    /\ Len(questions) = 2
    /\ result = questions[2].id

-----------------------------------------------------------------------------
(* Properties of getQuestionPath, checked under SpecPath. *)

\* The ids of the questions of a sequence.
IdsOf(qs) == {qs[i].id : i \in 1..Len(qs)}

\* The questions of the list that have the given id.
QuestionsWithId(id) == {questions[i] : i \in {j \in 1..Len(questions) : questions[j].id = id}}

\* C4: getQuestionPath terminates on every list, answer map and start id
\* (cycles, self-loops, backward and dangling targets included): until it
\* has returned a step is always possible and the iteration counter never
\* passes 2 x list length; the path is never longer than 2 x list length and
\* each of its elements is a question of the list.
C4_TerminatesWithinCap ==
    /\ pc = "returned" \/ ENABLED NextPath
    /\ iterations <= 2 * Len(questions)
    /\ Len(path) <= iterations
    /\ Len(path) <= 2 * Len(questions)
    /\ \A i \in 1..Len(path) : \E j \in 1..Len(questions) : path[i] = questions[j]
    /\ pc = "returned" => result = path

\* The 2-cycle q1 -> q2 -> q1 by default-next: the walk returned [q1, q2].
C4_Witness ==
    /\ pc = "returned"
    /\ Len(questions) = 2
    /\ questions[1].defaultNextId = "q2" /\ questions[1].branches = <<>>
    /\ questions[2].defaultNextId = "q1" /\ questions[2].branches = <<>>
    /\ startFromId = UNDEFINED
    /\ result = questions

\* C5: the returned path is the longest well-formed prefix of the walk:
\* each element's resolver result is the id of the element after it, and
\* the resolver result of the last element is END, an id already in the
\* path, or an id of no question (the empty id included).
C5_LongestWellFormedPrefix ==
    (pc = "returned" /\ Len(questions) > 0) =>
        /\ \A i \in 1..(Len(result) - 1) :
              result[i + 1].id = getNextQuestionId(result[i], questions, answers)
        /\ Len(result) > 0 =>
              LET next == getNextQuestionId(result[Len(result)], questions, answers)
              IN  \/ next = NULL
                  \/ next \in IdsOf(result)
                  \/ next \notin IdsOf(questions)

\* A walk of two questions, the first hop taken by a matching rule against
\* the default-next, ended by the second question pointing back at the first.
C5_Witness ==
    /\ pc = "returned"
    /\ Len(questions) = 2
    /\ Len(result) = 2
    /\ result[1].branches # <<>>
    /\ result[1].defaultNextId = NULL
    /\ Lookup(answers, "q1") = Str(<<"a">>)
    /\ getNextQuestionId(result[2], questions, answers) = result[1].id

\* C6 as claimed: empty list gives the empty path; over a non-empty list a
\* given start id of an existing question makes it the first element, a
\* given start id of no question gives the empty path, and no start id
\* starts at the first question.
C6_StartRuleAsClaimed ==
    pc = "returned" =>
        /\ Len(questions) = 0 => result = <<>>
        /\ (Len(questions) > 0 /\ startFromId # UNDEFINED) =>
              IF QuestionsWithId(startFromId) # {}
              THEN Len(result) > 0 /\ result[1] \in QuestionsWithId(startFromId)
              ELSE result = <<>>
        /\ (Len(questions) > 0 /\ startFromId = UNDEFINED) =>
              Len(result) > 0 /\ result[1] = questions[1]

\* C6, amended: as claimed for a given non-empty start id; an absent start
\* id and the empty string both start the walk at the first question.
C6_StartRule ==
    pc = "returned" =>
        /\ Len(questions) = 0 => result = <<>>
        /\ (Len(questions) > 0 /\ startFromId \notin {UNDEFINED, ""}) =>
              IF QuestionsWithId(startFromId) # {}
              THEN Len(result) > 0 /\ result[1] \in QuestionsWithId(startFromId)
              ELSE result = <<>>
        /\ (Len(questions) > 0 /\ startFromId \in {UNDEFINED, ""}) =>
              Len(result) > 0 /\ result[1] = questions[1]

\* The empty string was passed as start id over two questions and the walk
\* started at the first question.
C6_Witness ==
    /\ pc = "returned"
    /\ startFromId = ""
    /\ Len(questions) = 2
    /\ Len(result) > 0
    /\ result[1] = questions[1]

-----------------------------------------------------------------------------
(* Properties of evaluateCondition, checked under SpecEval. *)

\* The answer map has an entry, other than null, for the condition's source.
HasAnswer ==
    /\ condition.questionId \in DOMAIN answers
    /\ answers[condition.questionId] # JsNull

\* The answer the condition is about (meaningful when HasAnswer).
TheAnswer == answers[condition.questionId]

WithOperator(o) == [condition EXCEPT !.operator = o]

\* C7: with no entry for the source question, or an explicit null entry,
\* evaluateCondition is false for every operator (not_equals and unknown
\* operators included) and every condition value.
C7_NoAnswerIsFalse ==
    (pc = "returned" /\ ~HasAnswer) => result = Bool(FALSE)

\* not_equals was evaluated against an answer map with no entry and gave false.
C7_Witness ==
    /\ pc = "returned"
    /\ condition.questionId \notin DOMAIN answers
    /\ condition.operator = "not_equals"
    /\ condition.value = Str(<<"a">>)
    /\ result = Bool(FALSE)

\* The equality/membership test of equals: string equality of the string
\* forms for a scalar answer, membership of the value for a list answer.
EqualityTest ==
    IF TheAnswer.k = "array"
    THEN \E i \in 1..Len(TheAnswer.items) : TheAnswer.items[i] = condition.value
    ELSE String(TheAnswer) = String(condition.value)

\* C8: for a present answer and a scalar condition value, equals is the
\* equality/membership test and not_equals is its negation, so exactly one
\* of the two holds.
C8_EqualsNotEqualsComplement ==
    (pc = "returned" /\ HasAnswer /\ condition.value.k = "string") =>
        /\ condition.operator = "equals" => result = Bool(EqualityTest)
        /\ condition.operator = "not_equals" => result = Bool(~EqualityTest)
        /\ evaluateCondition(WithOperator("equals"), answers)
             # evaluateCondition(WithOperator("not_equals"), answers)

\* not_equals "1" against the list answer ["a", 1]: the string "1" is no
\* member of the list, and the result was true.
C8_Witness ==
    /\ pc = "returned"
    /\ condition.operator = "not_equals"
    /\ condition.value = Str(<<"1">>)
    /\ HasAnswer
    /\ TheAnswer = Arr(<<Str(<<"a">>), Num(1)>>)
    /\ result = Bool(TRUE)

\* C9: operator in is false whenever the condition value is no list; with a
\* list value it holds of a list answer iff the string form of some answer
\* element is in the list, and of a present scalar answer iff its string
\* form is in the list.
C9_InNeedsListValue ==
    (pc = "returned" /\ condition.operator = "in") =>
        /\ condition.value.k # "array" => result = Bool(FALSE)
        /\ (condition.value.k = "array" /\ HasAnswer) =>
              LET inList(str) == \E j \in 1..Len(condition.value.items) :
                                    condition.value.items[j].s = str
              IN  result = Bool(IF TheAnswer.k = "array"
                                THEN \E i \in 1..Len(TheAnswer.items) :
                                        inList(String(TheAnswer.items[i]))
                                ELSE inList(String(TheAnswer)))

\* in with the string value "x" against the answer "x" gave false.
C9_Witness ==
    /\ pc = "returned"
    /\ condition.operator = "in"
    /\ condition.value = Str(<<"x">>)
    /\ HasAnswer
    /\ TheAnswer = Str(<<"x">>)
    /\ result = Bool(FALSE)

\* Two characters are the same letter up to case.
SameLetter(c, d) ==
    c = d \/ {c, d} \in {{"a", "A"}, {"b", "B"}, {"x", "X"}, {"o", "O"}}

\* needle occurs in hay as a substring, letters compared up to case.
OccursIgnoringCase(hay, needle) ==
    \E off \in 0..(Len(hay) - Len(needle)) :
        \A j \in 1..Len(needle) : SameLetter(hay[off + j], needle[j])

\* C10: operator contains is a case-insensitive substring test of the string
\* form of the condition value: against the string form of a present scalar
\* answer, and against some element of a list answer (so false for the
\* empty list).
C10_ContainsIgnoresCase ==
    (pc = "returned" /\ condition.operator = "contains" /\ HasAnswer) =>
        result = Bool(IF TheAnswer.k = "array"
                      THEN \E i \in 1..Len(TheAnswer.items) :
                              OccursIgnoringCase(String(TheAnswer.items[i]),
                                                 String(condition.value))
                      ELSE OccursIgnoringCase(String(TheAnswer),
                                              String(condition.value)))

\* contains "ab" against the answer "XAB" gave true.
C10_Witness ==
    /\ pc = "returned"
    /\ condition.operator = "contains"
    /\ condition.value = Str(<<"a", "b">>)
    /\ HasAnswer
    /\ TheAnswer = Str(<<"X", "A", "B">>)
    /\ result = Bool(TRUE)

-----------------------------------------------------------------------------
(* getBranchableQuestions, getConditionableQuestions, getQuestionValues *)

QuestionTypes ==
    {"short_text", "long_text", "dropdown", "checkboxes", "email", "phone",
     "number", "date", "rating", "opinion_scale", "yes_no", "file_upload",
     "url", "location"}

\* A question with the fields the queries read; an unset optional field is
\* JsUndefined, minValue and maxValue are numbers, options a list of strings.
TypedQuestion(id, type, options, minValue, maxValue) ==
    [id |-> id, type |-> type, options |-> options,
     minValue |-> minValue, maxValue |-> maxValue]

\* allQuestions.slice(from, to) with 0 <= from and to <= length (0-based, to excluded)
slice(allQuestions, from, to) == SubSeq(allQuestions, from + 1, to)

getBranchableQuestions(question, allQuestions) ==
    LET currentIndex == findIndex(allQuestions, question.id)
    IN  IF currentIndex < 0 THEN <<>>
        ELSE slice(allQuestions, currentIndex + 1, Len(allQuestions))

branchableTypes == <<"dropdown", "checkboxes", "yes_no", "rating", "opinion_scale">>

\* Mutant of getConditionableQuestions: the slice runs up to and including the
\* current question.
getConditionableQuestions_inclusive(question, allQuestions) ==
    LET currentIndex == findIndex(allQuestions, question.id)
        keep(q) == \E t \in 1..Len(branchableTypes) : branchableTypes[t] = q.type
    IN  IF currentIndex < 0 THEN <<>>
        ELSE SelectSeq(slice(allQuestions, 0, currentIndex + 1), keep)

getConditionableQuestions(question, allQuestions) ==
    LET currentIndex == findIndex(allQuestions, question.id)
        keep(q) == \E t \in 1..Len(branchableTypes) : branchableTypes[t] = q.type
    IN  IF currentIndex <= 0 THEN <<>>
        ELSE SelectSeq(slice(allQuestions, 0, currentIndex), keep)

\* Lists of n typed questions q1..qn and a question that is one of them
\* (idx > 0) or has an id of no question of the list (idx = 0).
InitEligibility ==
    /\ \E n \in 0..MaxQuestions, idx \in 0..MaxQuestions :
          /\ idx <= n
          /\ questions \in [1..n -> {TypedQuestion(id, t, JsUndefined, JsUndefined,
                                                   JsUndefined) :
                                        id \in ListIds(n), t \in QuestionTypes}]
          /\ \A i \in 1..n : questions[i].id = QuestionIds[i]
          /\ \E t \in QuestionTypes :
                currentQuestion =
                    IF idx = 0
                    THEN TypedQuestion("zz", t, JsUndefined, JsUndefined, JsUndefined)
                    ELSE questions[idx]
    /\ answers = EmptyMap
    /\ condition = NoCall
    /\ startFromId = UNDEFINED
    /\ Idle

GetConditionableQuestions ==
    /\ pc = "ready"
    /\ result' = [call |-> "getConditionableQuestions",
                  value |-> getConditionableQuestions(currentQuestion, questions)]
    /\ pc' = "returned"
    /\ UNCHANGED <<questions, answers, condition, currentQuestion, startFromId,
                   path, visited, currentId, iterations>>

GetBranchableQuestions ==
    /\ pc = "ready"
    /\ result' = [call |-> "getBranchableQuestions",
                  value |-> getBranchableQuestions(currentQuestion, questions)]
    /\ pc' = "returned"
    /\ UNCHANGED <<questions, answers, condition, currentQuestion, startFromId,
                   path, visited, currentId, iterations>>

NextEligibility == GetConditionableQuestions \/ GetBranchableQuestions

SpecEligibility == InitEligibility /\ [][NextEligibility]_vars

-----------------------------------------------------------------------------
(* Properties of the eligibility queries, checked under SpecEligibility. *)

\* The types whose answers can serve as condition sources.
AllowList == {"dropdown", "checkboxes", "yes_no", "rating", "opinion_scale"}

\* The position in the list of the question with the given id, 0 if none.
PositionOf(id) ==
    IF \E j \in 1..Len(questions) : questions[j].id = id
    THEN CHOOSE j \in 1..Len(questions) : questions[j].id = id
    ELSE 0

-----------------------------------------------------------------------------
(* getQuestionValues applied to a question of every type and numeric range. *)

\* v || d for an optional number: undefined and 0 are falsy.
orDefault(v, d) == IF v = JsUndefined \/ v = Num(0) THEN d ELSE v.n

\* Array.from({ length }, (_, i) => String(min + i)); no elements when length <= 0.
rangeStrings(min, length) == [i \in 1..length |-> NumberToString(min + (i - 1))]

getQuestionValues(question) ==
    CASE question.type \in {"dropdown", "checkboxes"} ->
           IF question.options = JsUndefined THEN <<>>
           ELSE [i \in 1..Len(question.options.items) |-> question.options.items[i].s]
      [] question.type = "yes_no" -> <<<<"Y", "e", "s">>, <<"N", "o">>>>
      [] question.type = "rating" ->
           LET minRating == orDefault(question.minValue, 1)
               maxRating == orDefault(question.maxValue, 5)
           IN  rangeStrings(minRating, maxRating - minRating + 1)
      [] question.type = "opinion_scale" ->
           LET minScale == orDefault(question.minValue, 1)
               maxScale == orDefault(question.maxValue, 10)
           IN  rangeStrings(minScale, maxScale - minScale + 1)
      [] OTHER -> <<>>

OptionalNumbers == {JsUndefined} \cup {Num(n) : n \in (0 - MaxBelowZero)..MaxScale}
OptionLists == {JsUndefined, Arr(<<Str(<<"R", "e", "d">>), Str(<<"B", "l", "u", "e">>)>>)}

InitValues ==
    /\ \E t \in QuestionTypes, o \in OptionLists, lo \in OptionalNumbers,
          hi \in OptionalNumbers :
          currentQuestion = TypedQuestion("q1", t, o, lo, hi)
    /\ questions = <<currentQuestion>>
    /\ answers = EmptyMap
    /\ condition = NoCall
    /\ startFromId = UNDEFINED
    /\ Idle

GetQuestionValues ==
    /\ pc = "ready"
    /\ result' = getQuestionValues(currentQuestion)
    /\ pc' = "returned"
    /\ UNCHANGED <<questions, answers, condition, currentQuestion, startFromId,
                   path, visited, currentId, iterations>>

NextValues == GetQuestionValues

SpecValues == InitValues /\ [][NextValues]_vars

-----------------------------------------------------------------------------
(* Properties of getQuestionValues, checked under SpecValues. *)

\* The range a bounded-numeric question is configured with: the configured
\* minimum and maximum, 1 and the type's default maximum where not configured.
ConfiguredMin ==
    IF currentQuestion.minValue = JsUndefined THEN 1 ELSE currentQuestion.minValue.n
ConfiguredMax ==
    IF currentQuestion.maxValue # JsUndefined THEN currentQuestion.maxValue.n
    ELSE IF currentQuestion.type = "rating" THEN 5 ELSE 10

\* C12: for rating and opinion_scale, with min <= max, getQuestionValues is
\* the ascending list of the decimal strings of every integer from the
\* configured min to the configured max; an unconfigured min is 1, an
\* unconfigured max 5 (rating) or 10 (opinion_scale).
C12_ConfiguredRange ==
    (pc = "returned" /\ currentQuestion.type \in {"rating", "opinion_scale"}
        /\ ConfiguredMin <= ConfiguredMax) =>
        /\ Len(result) = ConfiguredMax - ConfiguredMin + 1
        /\ \A i \in 1..Len(result) :
              result[i] = NumberToString(ConfiguredMin + (i - 1))

-----------------------------------------------------------------------------
(* Further properties of getQuestionPath, checked under SpecPath. *)

\* C13: during the walk and in the returned path no question id occurs
\* twice; while the loop runs every iteration so far has added exactly one
\* new id to the visited set and one question to the path, so the path is
\* never longer than the list and the counter is below the cap of 2 x list
\* length whenever the loop condition is tested: the loop is left by END (or
\* the empty id), a revisit or an unknown id, never by the cap.
C13_CapNeverReached ==
    /\ \A i, j \in 1..Len(path) : path[i].id = path[j].id => i = j
    /\ Len(path) <= Len(questions)
    /\ pc = "loop" =>
          /\ Cardinality(visited) = iterations
          /\ Len(path) = iterations
          /\ visited = IdsOf(path)
          /\ iterations < 2 * Len(questions)
    /\ pc \in {"return", "returned"} =>
          \/ Len(questions) = 0
          \/ currentId \in {NULL, ""}
          \/ currentId \in IdsOf(path)
          \/ currentId \notin IdsOf(questions)
    /\ pc = "returned" => result = path

\* The self-loop q1 -> q1 in a list of two questions: the walk returned [q1]
\* after two iterations, stopped by the revisit with the cap at four.
C13_Witness ==
    /\ pc = "returned"
    /\ Len(questions) = 2
    /\ questions[1].defaultNextId = "q1"
    /\ questions[1].branches = <<>>
    /\ startFromId = UNDEFINED
    /\ result = <<questions[1]>>
    /\ currentId = "q1"
    /\ iterations = 2

\* The targets a question names: those of its rules and its explicit default-next.
TargetsOf(q) ==
    {q.branches[b].nextQuestionId : b \in 1..Len(q.branches)}
        \cup (IF q.defaultNextId # UNDEFINED THEN {q.defaultNextId} ELSE {})

\* The authoring convention: every target of a question is END or the id of
\* a question at a strictly later position of the list.
ForwardConvention ==
    \A i \in 1..Len(questions) : \A t \in TargetsOf(questions[i]) :
        t = NULL \/ \E j \in (i + 1)..Len(questions) : questions[j].id = t

\* C14: under the authoring convention, from the default start or the id of
\* an existing question, the path's elements are in strictly increasing list
\* position, and the loop is left only because the resolver returned END:
\* no iteration broke out (each pushed a question) and the cap was not met.
C14_ForwardWalkEndsAtEnd ==
    (ForwardConvention /\ startFromId \in IdsOf(questions) \cup {UNDEFINED}) =>
        /\ \A i, j \in 1..Len(path) :
              i < j => PositionOf(path[i].id) < PositionOf(path[j].id)
        /\ (pc \in {"return", "returned"} /\ Len(questions) > 0) =>
              /\ currentId = NULL
              /\ Len(path) > 0
              /\ iterations = Len(path)
              /\ iterations < 2 * Len(questions)
        /\ pc = "returned" => result = path

\* Two questions under the convention, started at q1 by id: the rule of q1
\* matched and led to q2, whose explicit end finished the walk [q1, q2].
C14_Witness ==
    /\ pc = "returned"
    /\ ForwardConvention
    /\ startFromId = "q1"
    /\ Len(questions) = 2
    /\ questions[1].branches # <<>>
    /\ questions[1].branches[1].nextQuestionId = "q2"
    /\ Lookup(answers, "q1") = Str(<<"a">>)
    /\ questions[2].defaultNextId = NULL
    /\ result = questions
    /\ currentId = NULL

-----------------------------------------------------------------------------
(* Further properties of evaluateCondition, checked under SpecEval. *)

\* The condition with operator in and the one-element list of its value.
AsInCondition ==
    [condition EXCEPT !.operator = "in", !.value = Arr(<<condition.value>>)]

\* C15: for every present answer (scalar or list; strings, numbers and
\* booleans) and every string v, equals with value v gives the same result
\* as in with value [v].
C15_EqualsAgreesWithIn ==
    (pc = "returned" /\ HasAnswer /\ condition.operator = "equals"
        /\ condition.value.k = "string") =>
        result = Bool(evaluateCondition(AsInCondition, answers))

-----------------------------------------------------------------------------
(* Restarting getQuestionPath, checked under SpecPath. *)

\* The path projected from the question at index k of the returned path.
Restarted(k) == getQuestionPath(questions, answers, result[k].id)

====
